---- MODULE Spec2Model ----
(***************************************************************************)
(* Task/category record manager: a Model orchestrating two Store           *)
(* instances (tasks, categories) kept in localStorage.                     *)
(*                                                                         *)
(* JavaScript values are represented as follows.                           *)
(*   - a string is a tuple of one-character strings;                        *)
(*   - a stored record is a function from its own keys to values: a key    *)
(*     that was never written (or whose value was undefined when the       *)
(*     collection went through JSON.stringify) is not in its DOMAIN;       *)
(*   - an id ARGUMENT is [type, v]: the number v, or the decimal string    *)
(*     of v; ids held in records are always numbers (Date#getTime);        *)
(*   - a lookup result that may be undefined is a sequence of length <= 1. *)
(*                                                                         *)
(* Spec is one Model instance: Store callbacks run inline, so each Model   *)
(* operation is one step.  SpecTabs is two windows of the application on   *)
(* the same localStorage: each runs its own Model, and the Store calls of  *)
(* their operations interleave; tabs holds where each window's operation   *)
(* stands and the local variables it has assigned.                         *)
(***************************************************************************)
EXTENDS Integers, Sequences, FiniteSets, TLC

VARIABLES taskStorage, categoryStorage, clock, last, tabs

vars == <<taskStorage, categoryStorage, clock, last, tabs>>

(* ---------------------------- bounds ----------------------------------- *)
MaxClock == 2
MaxTasks == 2

(* ---------------------------- JS values -------------------------------- *)
\* the value read from a missing numeric field (task.categoryId)
undefined == -1

SP == " "

Num(n) == [type |-> "number", v |-> n]
Str(n) == [type |-> "string", v |-> n]
NoId == [type |-> "undefined", v |-> 0]

\* if (id): 0 and undefined are falsy, every non-empty string is truthy
truthy(id) == id.type = "string" \/ (id.type = "number" /\ id.v # 0)

\* item.id == id, the stored id being a number
looseEq(itemId, id) == id.type # "undefined" /\ itemId = id.v

\* items[i].id === id
strictEq(itemId, id) == id.type = "number" /\ itemId = id.v

\* parseInt(query, 10) of a number or of a decimal string
parseInt(id) == Num(id.v)

RECURSIVE trimStart(_)
trimStart(s) == IF s # <<>> /\ Head(s) = SP THEN trimStart(Tail(s)) ELSE s

RECURSIVE trimEnd(_)
trimEnd(s) ==
    IF s # <<>> /\ s[Len(s)] = SP THEN trimEnd(SubSeq(s, 1, Len(s) - 1)) ELSE s

\* String.prototype.trim
trim(s) == trimEnd(trimStart(s))

\* x ? x.trim() : ''
trimOrEmpty(s) == IF s # <<>> THEN trim(s) ELSE <<>>

\* for (key in b) a[key] = b[key]
merge(a, b) ==
    [k \in (DOMAIN a) \cup (DOMAIN b) |-> IF k \in DOMAIN b THEN b[k] ELSE a[k]]

\* item[k], for the numeric field categoryId
categoryIdOf(item) ==
    IF "categoryId" \in DOMAIN item THEN item["categoryId"] ELSE undefined

(* ------------------------------ Store ---------------------------------- *)
\* the filter of Store.prototype.find: query[q] !== item[q] rejects
matches(query, item) ==
    \A q \in DOMAIN query :
        IF q = "categoryId" /\ query[q] = undefined
        THEN q \notin DOMAIN item
        ELSE q \in DOMAIN item /\ item[q] = query[q]

find(items, query) == SelectSeq(items, LAMBDA item : matches(query, item))

findById(items, id) ==
    LET hits == SelectSeq(items, LAMBDA item : looseEq(item["id"], id))
    IN  IF hits = <<>> THEN <<>> ELSE <<Head(hits)>>

findAll(items) == items

\* index of the first record the update loop of save stops at, 0 if none
saveIndex(items, id) ==
    LET hits == {i \in DOMAIN items : strictEq(items[i]["id"], id)}
    IN  IF hits = {} THEN 0 ELSE CHOOSE i \in hits : \A j \in hits : i <= j

\* a save that puts a new record first
save_Prepend(items, updateData, id, now) ==
    IF truthy(id)
    THEN LET hit == saveIndex(items, id)
             updated == [i \in DOMAIN items |->
                            IF i = hit THEN merge(items[i], updateData)
                                       ELSE items[i]]
         IN  [items |-> updated, result |-> updated]
    ELSE LET created == merge(updateData, [id |-> now])
         IN  [items |-> <<created>> \o items, result |-> <<created>>]

save(items, updateData, id, now) ==
    IF truthy(id)
    THEN LET hit == saveIndex(items, id)
             updated == [i \in DOMAIN items |->
                            IF i = hit THEN merge(items[i], updateData)
                                       ELSE items[i]]
         IN  [items |-> updated, result |-> updated]
    ELSE LET created == merge(updateData, [id |-> now])
         IN  [items |-> Append(items, created), result |-> <<created>>]

removeIndex(items, id) ==
    LET hits == {i \in DOMAIN items : looseEq(items[i]["id"], id)}
    IN  IF hits = {} THEN 0 ELSE CHOOSE i \in hits : \A j \in hits : i <= j

remove(items, id) ==
    LET hit == removeIndex(items, id)
    IN  IF hit = 0 THEN items
        ELSE SubSeq(items, 1, hit - 1) \o SubSeq(items, hit + 1, Len(items))

\* a drop that clears nothing
drop_Keep(items) == items

drop(items) == <<>>

(* ------------------------------ Model ---------------------------------- *)
\* a resolution that never looks the name up
_getCategoryIdByName_AlwaysCreate(categories, categoryName, now) ==
    LET s == save(categories, [name |-> categoryName], NoId, now)
    IN  [categoryStorage |-> s.items, categoryId |-> s.result[1]["id"]]

\* find-or-create of a category by exact name
_getCategoryIdByName(categories, categoryName, now) ==
    LET data == find(categories, [name |-> categoryName])
    IN  IF data = <<>>
        THEN LET s == save(categories, [name |-> categoryName], NoId, now)
             IN  [categoryStorage |-> s.items, categoryId |-> s.result[1]["id"]]
        ELSE [categoryStorage |-> categories, categoryId |-> data[1]["id"]]

\* the id -> name Map built by forEach: a later category overwrites an
\* earlier one with the same id
caregoryMap(categories, categoryId) ==
    LET hits == {i \in DOMAIN categories : categories[i]["id"] = categoryId}
    IN  IF hits = {} THEN <<>>
        ELSE <<categories[CHOOSE i \in hits : \A j \in hits : j <= i]["name"]>>

\* a join that labels every task with the first category
_joinCategories_FirstCategory(tasks, categories) ==
    [i \in DOMAIN tasks |->
        IF categories = <<>> THEN tasks[i]
        ELSE merge(tasks[i], [categoryName |-> categories[1]["name"]])]

_joinCategories(tasks, categories) ==
    [i \in DOMAIN tasks |->
        LET name == caregoryMap(categories, categoryIdOf(tasks[i]))
        IN  IF name = <<>> THEN tasks[i]
            ELSE merge(tasks[i], [categoryName |-> name[1]])]

(* ------------------------------ inputs --------------------------------- *)
Titles == {<<"t", SP>>}
CreateNames == {<<"W", SP>>}
UpdateNames == {<<SP, "W">>}
Ids == {Num(n) : n \in 0..MaxClock} \cup {Str(1)}

Queries == {[completed |-> TRUE], <<>>}
UpdateData ==
    {[completed |-> TRUE]} \cup {[categoryName |-> n] : n \in UpdateNames}

NoArg == [none |-> TRUE]

\* the windows sharing the localStorage collections
Tabs == {"A", "B"}
TabIds == {Num(n) : n \in 1..MaxClock}

\* no operation under way in a window
Idle == [pc |-> "idle", id |-> NoId, title |-> <<>>, name |-> <<>>,
         categoryId |-> undefined, prevCategoryId |-> undefined,
         changed |-> FALSE]

Init ==
    /\ taskStorage = <<>>
    /\ categoryStorage = <<>>
    /\ clock = 1
    /\ last = [op |-> "init", arg |-> NoArg, raised |-> FALSE, calls |-> 0,
               result |-> <<>>]
    /\ tabs = [p \in Tabs |-> Idle]

\* Date#getTime moves on between two operations, or does not: an operation
\* creates at most one record per store, so one reading of the clock serves it
Tick ==
    /\ clock < MaxClock
    /\ clock' = clock + 1
    /\ UNCHANGED <<taskStorage, categoryStorage, last, tabs>>

Done(op, arg, raised, calls, result) ==
    /\ last' = [op |-> op, arg |-> arg, raised |-> raised, calls |-> calls,
                result |-> result]
    /\ UNCHANGED tabs

\* a create whose task is saved before the resolution has assigned categoryId
create_Unresolved(title, categoryName) ==
    /\ Len(taskStorage) < MaxTasks
    /\ LET name == trimOrEmpty(categoryName)
           newTask == [title |-> trimOrEmpty(title), completed |-> FALSE]
           s == save(taskStorage, newTask, NoId, clock)
           r == _getCategoryIdByName(categoryStorage, name, clock)
       IN  /\ categoryStorage' = r.categoryStorage
           /\ taskStorage' = s.items
           /\ Done("create", [title |-> title, categoryName |-> categoryName],
                   FALSE, 1, s.result)
    /\ UNCHANGED clock

create(title, categoryName) ==
    /\ Len(taskStorage) < MaxTasks
    /\ LET name == trimOrEmpty(categoryName)
           r == _getCategoryIdByName(categoryStorage, name, clock)
           newTask == [title |-> trimOrEmpty(title), categoryId |-> r.categoryId,
                       completed |-> FALSE]
           s == save(taskStorage, newTask, NoId, clock)
       IN  /\ categoryStorage' = r.categoryStorage
           /\ taskStorage' = s.items
           /\ Done("create", [title |-> title, categoryName |-> categoryName],
                   FALSE, 1, s.result)
    /\ UNCHANGED clock

\* typeof query === 'function'
readAll ==
    /\ Done("readAll", NoArg, FALSE, 1,
            _joinCategories(findAll(taskStorage), categoryStorage))
    /\ UNCHANGED <<taskStorage, categoryStorage, clock>>

\* typeof query is 'string' or 'number': task.categoryId and category.name
\* raise a TypeError when the lookup before them found nothing
readById(query) ==
    /\ LET task == findById(taskStorage, parseInt(query))
           category == IF task = <<>> THEN <<>>
                       ELSE findById(categoryStorage, Num(categoryIdOf(task[1])))
       IN  IF task = <<>> \/ category = <<>>
           THEN Done("readById", [id |-> query], TRUE, 0, <<>>)
           ELSE Done("readById", [id |-> query], FALSE, 1,
                     <<merge(task[1], [categoryName |-> category[1]["name"]])>>)
    /\ UNCHANGED <<taskStorage, categoryStorage, clock>>

\* any other query: a field-equality predicate
readQuery(query) ==
    /\ Done("readQuery", [query |-> query], FALSE, 1,
            _joinCategories(find(taskStorage, query), categoryStorage))
    /\ UNCHANGED <<taskStorage, categoryStorage, clock>>

\* an update that never compares the resolved id with the previous one
update_AlwaysChanged(id, data) ==
    /\ "categoryName" \in DOMAIN data \/ truthy(id) \/ Len(taskStorage) < MaxTasks
    /\ IF "categoryName" \in DOMAIN data
       THEN LET rest == [k \in (DOMAIN data) \ {"categoryName"} |-> data[k]]
                r == _getCategoryIdByName(categoryStorage, data["categoryName"], clock)
                task == findById(taskStorage, id)
            IN  IF task = <<>>
                THEN /\ categoryStorage' = r.categoryStorage
                     /\ taskStorage' = taskStorage
                     /\ Done("update", [id |-> id, data |-> data], TRUE, 0, <<>>)
                ELSE LET prevCategoryId == categoryIdOf(task[1])
                         changed == TRUE
                         members == find(taskStorage, [categoryId |-> prevCategoryId])
                         cats == IF changed /\ Len(members) <= 1
                                 THEN remove(r.categoryStorage, Num(prevCategoryId))
                                 ELSE r.categoryStorage
                         data2 == IF changed
                                  THEN merge(rest, [categoryId |-> r.categoryId])
                                  ELSE rest
                         s == save(taskStorage, data2, id, clock)
                     IN  /\ categoryStorage' = cats
                         /\ taskStorage' = s.items
                         /\ Done("update", [id |-> id, data |-> data], FALSE, 1,
                                 s.result)
       ELSE LET s == save(taskStorage, data, id, clock)
            IN  /\ taskStorage' = s.items
                /\ categoryStorage' = categoryStorage
                /\ Done("update", [id |-> id, data |-> data], FALSE, 1, s.result)
    /\ UNCHANGED clock

\* without categoryName and with a falsy id, save appends a record
update(id, data) ==
    /\ "categoryName" \in DOMAIN data \/ truthy(id) \/ Len(taskStorage) < MaxTasks
    /\ IF "categoryName" \in DOMAIN data
       THEN LET rest == [k \in (DOMAIN data) \ {"categoryName"} |-> data[k]]
                r == _getCategoryIdByName(categoryStorage, data["categoryName"], clock)
                task == findById(taskStorage, id)
            IN  IF task = <<>>
                THEN /\ categoryStorage' = r.categoryStorage
                     /\ taskStorage' = taskStorage
                     /\ Done("update", [id |-> id, data |-> data], TRUE, 0, <<>>)
                ELSE LET prevCategoryId == categoryIdOf(task[1])
                         changed == r.categoryId # prevCategoryId
                         members == find(taskStorage, [categoryId |-> prevCategoryId])
                         cats == IF changed /\ Len(members) <= 1
                                 THEN remove(r.categoryStorage, Num(prevCategoryId))
                                 ELSE r.categoryStorage
                         data2 == IF changed
                                  THEN merge(rest, [categoryId |-> r.categoryId])
                                  ELSE rest
                         s == save(taskStorage, data2, id, clock)
                     IN  /\ categoryStorage' = cats
                         /\ taskStorage' = s.items
                         /\ Done("update", [id |-> id, data |-> data], FALSE, 1,
                                 s.result)
       ELSE LET s == save(taskStorage, data, id, clock)
            IN  /\ taskStorage' = s.items
                /\ categoryStorage' = categoryStorage
                /\ Done("update", [id |-> id, data |-> data], FALSE, 1, s.result)
    /\ UNCHANGED clock

Model_remove(id) ==
    /\ LET task == findById(taskStorage, id)
       IN  IF task = <<>>
           THEN /\ UNCHANGED <<taskStorage, categoryStorage>>
                /\ Done("remove", [id |-> id], TRUE, 0, <<>>)
           ELSE LET categoryId == categoryIdOf(task[1])
                    data == find(taskStorage, [categoryId |-> categoryId])
                    tasks == remove(taskStorage, id)
                IN  /\ categoryStorage' =
                         IF Len(data) <= 1
                         THEN remove(categoryStorage, Num(categoryId))
                         ELSE categoryStorage
                    /\ taskStorage' = tasks
                    /\ Done("remove", [id |-> id], FALSE, 1, tasks)
    /\ UNCHANGED clock

\* the earlier revision with the last-member test written  < 1
remove_earlier_LessThanOne(tasks, categories, id) ==
    LET task == findById(tasks, id)
    IN  IF task = <<>>
        THEN [taskStorage |-> tasks, categoryStorage |-> categories, raised |-> TRUE]
        ELSE LET categoryId == categoryIdOf(task[1])
                 data == find(tasks, [categoryId |-> categoryId])
             IN  [taskStorage |-> remove(tasks, id),
                  categoryStorage |-> IF Len(data) < 1
                                      THEN remove(categories, Num(categoryId))
                                      ELSE categories,
                  raised |-> FALSE]

\* Model.prototype.remove of the earlier revision: data.length < 2
remove_earlier(tasks, categories, id) ==
    LET task == findById(tasks, id)
    IN  IF task = <<>>
        THEN [taskStorage |-> tasks, categoryStorage |-> categories, raised |-> TRUE]
        ELSE LET categoryId == categoryIdOf(task[1])
                 data == find(tasks, [categoryId |-> categoryId])
             IN  [taskStorage |-> remove(tasks, id),
                  categoryStorage |-> IF Len(data) < 2
                                      THEN remove(categories, Num(categoryId))
                                      ELSE categories,
                  raised |-> FALSE]

removeAll ==
    /\ categoryStorage' = drop(categoryStorage)
    /\ taskStorage' = drop(taskStorage)
    /\ Done("removeAll", NoArg, FALSE, 1, <<>>)
    /\ UNCHANGED clock

\* a count that ignores the completed flag
countOf_All(data, completed) == Len(data)

countOf(data, completed) ==
    Cardinality({i \in DOMAIN data :
        ("completed" \in DOMAIN data[i] /\ data[i]["completed"]) = completed})

getCount ==
    /\ LET data == findAll(taskStorage)
       IN  Done("getCount", NoArg, FALSE, 1,
                [active |-> countOf(data, FALSE), completed |-> countOf(data, TRUE),
                 total |-> Len(data)])
    /\ UNCHANGED <<taskStorage, categoryStorage, clock>>

Next ==
    \/ Tick
    \/ \E title \in Titles, categoryName \in CreateNames : create(title, categoryName)
    \/ readAll
    \/ \E id \in Ids : readById(id)
    \/ \E query \in Queries : readQuery(query)
    \/ \E id \in Ids, data \in UpdateData : update(id, data)
    \/ \E id \in Ids : Model_remove(id)
    \/ removeAll
    \/ getCount

Spec == Init /\ [][Next]_vars

(* --------------------- two windows, one localStorage ------------------- *)
\* each action below is one Store call of the operation window p is running
Goto(p, r) ==
    /\ tabs' = [tabs EXCEPT ![p] = r]
    /\ UNCHANGED <<clock, last>>

\* create: categoryStorage.find of _getCategoryIdByName
tab_create(p, title, categoryName) ==
    /\ tabs[p].pc = "idle"
    /\ Len(taskStorage) < MaxTasks
    /\ LET name == trimOrEmpty(categoryName)
           data == find(categoryStorage, [name |-> name])
       IN  Goto(p, [Idle EXCEPT
                !.pc = IF data = <<>> THEN "create_saveCategory" ELSE "create_saveTask",
                !.title = trimOrEmpty(title),
                !.name = name,
                !.categoryId = IF data = <<>> THEN undefined ELSE data[1]["id"]])
    /\ UNCHANGED <<taskStorage, categoryStorage>>

\* update with categoryName: categoryStorage.find of _getCategoryIdByName
tab_update(p, id, categoryName) ==
    /\ tabs[p].pc = "idle"
    /\ LET data == find(categoryStorage, [name |-> categoryName])
       IN  Goto(p, [Idle EXCEPT
                !.pc = IF data = <<>> THEN "update_saveCategory" ELSE "update_findById",
                !.id = id,
                !.name = categoryName,
                !.categoryId = IF data = <<>> THEN undefined ELSE data[1]["id"]])
    /\ UNCHANGED <<taskStorage, categoryStorage>>

\* categoryStorage.save of _getCategoryIdByName
tab_saveCategory(p) ==
    /\ tabs[p].pc \in {"create_saveCategory", "update_saveCategory"}
    /\ LET s == save(categoryStorage, [name |-> tabs[p].name], NoId, clock)
       IN  /\ categoryStorage' = s.items
           /\ Goto(p, [tabs[p] EXCEPT
                  !.pc = IF tabs[p].pc = "create_saveCategory"
                         THEN "create_saveTask" ELSE "update_findById",
                  !.categoryId = s.result[1]["id"]])
    /\ UNCHANGED taskStorage

\* create: taskStorage.save(newTask, callback)
tab_create_saveTask(p) ==
    /\ tabs[p].pc = "create_saveTask"
    /\ LET newTask == [title |-> tabs[p].title, categoryId |-> tabs[p].categoryId,
                       completed |-> FALSE]
       IN  taskStorage' = save(taskStorage, newTask, NoId, clock).items
    /\ Goto(p, Idle)
    /\ UNCHANGED categoryStorage

\* update: taskStorage.findById; task.categoryId of undefined ends the operation
tab_update_findById(p) ==
    /\ tabs[p].pc = "update_findById"
    /\ LET task == findById(taskStorage, tabs[p].id)
       IN  IF task = <<>>
           THEN Goto(p, Idle)
           ELSE LET prevCategoryId == categoryIdOf(task[1])
                IN  Goto(p, [tabs[p] EXCEPT
                        !.pc = IF tabs[p].categoryId # prevCategoryId
                               THEN "update_findMembers" ELSE "update_saveTask",
                        !.prevCategoryId = prevCategoryId])
    /\ UNCHANGED <<taskStorage, categoryStorage>>

\* update: taskStorage.find({categoryId: prevCategoryId})
tab_update_findMembers(p) ==
    /\ tabs[p].pc = "update_findMembers"
    /\ LET data == find(taskStorage, [categoryId |-> tabs[p].prevCategoryId])
       IN  Goto(p, [tabs[p] EXCEPT
               !.pc = IF Len(data) <= 1 THEN "update_removeCategory"
                                        ELSE "update_saveTask",
               !.changed = TRUE])
    /\ UNCHANGED <<taskStorage, categoryStorage>>

\* update, remove: categoryStorage.remove of the previous category
tab_removeCategory(p) ==
    /\ tabs[p].pc \in {"update_removeCategory", "remove_removeCategory"}
    /\ categoryStorage' = remove(categoryStorage, Num(tabs[p].prevCategoryId))
    /\ Goto(p, [tabs[p] EXCEPT
           !.pc = IF tabs[p].pc = "update_removeCategory"
                  THEN "update_saveTask" ELSE "remove_removeTask"])
    /\ UNCHANGED taskStorage

\* update: taskStorage.save(data, callback, id)
tab_update_saveTask(p) ==
    /\ tabs[p].pc = "update_saveTask"
    /\ LET data == IF tabs[p].changed THEN [categoryId |-> tabs[p].categoryId]
                                      ELSE <<>>
       IN  taskStorage' = save(taskStorage, data, tabs[p].id, clock).items
    /\ Goto(p, Idle)
    /\ UNCHANGED categoryStorage

\* remove: taskStorage.findById; task.categoryId of undefined ends the operation
tab_remove(p, id) ==
    /\ tabs[p].pc = "idle"
    /\ LET task == findById(taskStorage, id)
       IN  IF task = <<>>
           THEN Goto(p, Idle)
           ELSE Goto(p, [Idle EXCEPT !.pc = "remove_findMembers", !.id = id,
                                     !.prevCategoryId = categoryIdOf(task[1])])
    /\ UNCHANGED <<taskStorage, categoryStorage>>

\* remove: taskStorage.find({categoryId})
tab_remove_findMembers(p) ==
    /\ tabs[p].pc = "remove_findMembers"
    /\ LET data == find(taskStorage, [categoryId |-> tabs[p].prevCategoryId])
       IN  Goto(p, [tabs[p] EXCEPT
               !.pc = IF Len(data) <= 1 THEN "remove_removeCategory"
                                        ELSE "remove_removeTask"])
    /\ UNCHANGED <<taskStorage, categoryStorage>>

\* remove: taskStorage.remove(id, callback)
tab_remove_removeTask(p) ==
    /\ tabs[p].pc = "remove_removeTask"
    /\ taskStorage' = remove(taskStorage, tabs[p].id)
    /\ Goto(p, Idle)
    /\ UNCHANGED categoryStorage

NextTabs ==
    \/ Tick
    \/ \E p \in Tabs, title \in Titles, categoryName \in CreateNames :
          tab_create(p, title, categoryName)
    \/ \E p \in Tabs, id \in TabIds, categoryName \in UpdateNames :
          tab_update(p, id, categoryName)
    \/ \E p \in Tabs : tab_saveCategory(p)
    \/ \E p \in Tabs : tab_create_saveTask(p)
    \/ \E p \in Tabs : tab_update_findById(p)
    \/ \E p \in Tabs : tab_update_findMembers(p)
    \/ \E p \in Tabs : tab_removeCategory(p)
    \/ \E p \in Tabs : tab_update_saveTask(p)
    \/ \E p \in Tabs, id \in TabIds : tab_remove(p, id)
    \/ \E p \in Tabs : tab_remove_findMembers(p)
    \/ \E p \in Tabs : tab_remove_removeTask(p)

SpecTabs == Init /\ [][NextTabs]_vars

(* ------------------------- claim vocabulary ---------------------------- *)
\* the step just taken is the Model operation op (Tick leaves last alone)
Step(op) == last'.op = op /\ clock' = clock

Names(categories) == {categories[i]["name"] : i \in DOMAIN categories}
Named(categories, name) == {i \in DOMAIN categories : categories[i]["name"] = name}
HasCategory(categories, categoryId) ==
    \E i \in DOMAIN categories : categories[i]["id"] = categoryId
Members(tasks, categoryId) ==
    {i \in DOMAIN tasks : categoryIdOf(tasks[i]) = categoryId}
\* position of the task an id argument denotes (first loose match), 0 if none
Denoted(tasks, id) ==
    LET hits == {i \in DOMAIN tasks : id.type # "undefined" /\ tasks[i]["id"] = id.v}
    IN  IF hits = {} THEN 0 ELSE CHOOSE i \in hits : \A j \in hits : i <= j
Dangling(task, categories) == ~HasCategory(categories, categoryIdOf(task))
WithoutName(r) == [k \in (DOMAIN r) \ {"categoryName"} |-> r[k]]

\* C1: the category store never holds two categories whose trimmed names
\* are equal, whatever create and update calls were made.
C1_UniqueTrimmedNames ==
    \A i, j \in DOMAIN categoryStorage :
        i # j => trim(categoryStorage[i]["name"]) # trim(categoryStorage[j]["name"])

\* C2: after every mutating operation each category is referenced by the
\* categoryId of at least one task.
C2_NoOrphanCategory ==
    \A i \in DOMAIN categoryStorage :
        Members(taskStorage, categoryStorage[i]["id"]) # {}

\* C3: the categoryId of every task is the id of a category in the store.
C3_NoDanglingReference ==
    \A i \in DOMAIN taskStorage : ~Dangling(taskStorage[i], categoryStorage)

\* C4: create with a name whose trimmed value is the name of an existing
\* category adds no category; in every case the created task carries the id of
\* the one category of that name.
C4_CreateReusesCategory ==
    [][Step("create") =>
        LET name == trim(last'.arg.categoryName)
            newTask == taskStorage'[Len(taskStorage')]
        IN  /\ Len(taskStorage') = Len(taskStorage) + 1
            /\ Cardinality(Named(categoryStorage', name)) = 1
            /\ \A i \in Named(categoryStorage', name) :
                   categoryIdOf(newTask) = categoryStorage'[i]["id"]
            /\ Named(categoryStorage, name) # {} => categoryStorage' = categoryStorage
      ]_vars

\* two creates with the same category name: one category, shared by both tasks
C4_Witness ==
    /\ last.op = "create"
    /\ Len(taskStorage) = 2
    /\ Len(categoryStorage) = 1
    /\ \A i \in 1..2 : categoryIdOf(taskStorage[i]) = categoryStorage[1]["id"]

\* C5: remove of an existing task deletes the task's category exactly when
\* no other task references it.
C5_RemoveCascade ==
    [][(Step("remove") /\ Denoted(taskStorage, last'.arg.id) # 0) =>
        LET at == Denoted(taskStorage, last'.arg.id)
            categoryId == categoryIdOf(taskStorage[at])
            others == Members(taskStorage, categoryId) \ {at}
        IN  HasCategory(categoryStorage, categoryId) =>
                (HasCategory(categoryStorage', categoryId) <=> others # {})
      ]_vars

\* C6: update(T.id, {categoryName: Y}) on the sole member T of X # Y deletes X,
\* leaves a category named Y and gives T the id of Y; X is kept when it has
\* other members.
C6_UpdateReassigns ==
    [][(/\ Step("update")
        /\ "categoryName" \in DOMAIN last'.arg.data
        /\ last'.arg.id.type = "number"
        /\ Denoted(taskStorage, last'.arg.id) # 0) =>
        LET at == Denoted(taskStorage, last'.arg.id)
            Y == last'.arg.data["categoryName"]
            X == categoryIdOf(taskStorage[at])
            others == Members(taskStorage, X) \ {at}
            named == \E i \in DOMAIN categoryStorage :
                        categoryStorage[i]["id"] = X /\ categoryStorage[i]["name"] = Y
        IN  (HasCategory(categoryStorage, X) /\ ~named) =>
                /\ Named(categoryStorage', Y) # {}
                /\ \E i \in Named(categoryStorage', Y) :
                       categoryIdOf(taskStorage'[at]) = categoryStorage'[i]["id"]
                /\ HasCategory(categoryStorage', X) <=> others # {}
      ]_vars

\* C7: update, remove and read with an id that matches no task do not raise,
\* leave both stores unchanged and invoke the callback.
C7_UnknownIdIsNoOp ==
    [][((Step("update") \/ Step("remove") \/ Step("readById"))
            /\ Denoted(taskStorage, last'.arg.id) = 0) =>
        /\ ~last'.raised
        /\ last'.calls = 1
        /\ taskStorage' = taskStorage
        /\ categoryStorage' = categoryStorage
      ]_vars

\* C8: every shape of read returns a task whose categoryId matches no category
\* with categoryName unset, and raises nothing.
C8_DanglingJoinIsUnset ==
    /\ last.op \in {"readAll", "readQuery"} =>
         /\ ~last.raised
         /\ \A k \in DOMAIN last.result :
                Dangling(last.result[k], categoryStorage) =>
                    "categoryName" \notin DOMAIN last.result[k]
    /\ (/\ last.op = "readById"
        /\ Denoted(taskStorage, last.arg.id) # 0
        /\ Dangling(taskStorage[Denoted(taskStorage, last.arg.id)], categoryStorage)) =>
         /\ ~last.raised
         /\ Len(last.result) = 1
         /\ "categoryName" \notin DOMAIN last.result[1]

\* C9: read (all tasks, object predicate) returns exactly the tasks matching
\* the query, in store order, each with categoryName equal to the name of a
\* category whose id is the task's categoryId, when there is one.
C9_ReadJoins ==
    last.op \in {"readAll", "readQuery"} =>
        LET query == IF last.op = "readQuery" THEN last.arg.query ELSE <<>>
            hits == {i \in DOMAIN taskStorage :
                        \A q \in DOMAIN query :
                            q \in DOMAIN taskStorage[i] /\ taskStorage[i][q] = query[q]}
            \* the k-th smallest position among the hits
            nth(k) == CHOOSE i \in hits : Cardinality({j \in hits : j < i}) = k - 1
        IN  /\ Len(last.result) = Cardinality(hits)
            /\ \A k \in DOMAIN last.result :
                 LET r == last.result[k]
                 IN  /\ WithoutName(r) = taskStorage[nth(k)]
                     /\ HasCategory(categoryStorage, categoryIdOf(r)) =>
                          /\ "categoryName" \in DOMAIN r
                          /\ \E i \in DOMAIN categoryStorage :
                                /\ categoryStorage[i]["id"] = categoryIdOf(r)
                                /\ categoryStorage[i]["name"] = r["categoryName"]

\* a predicate read that selects one of two tasks and names its category,
\* the store holding two categories
C9_Witness ==
    /\ last.op = "readQuery"
    /\ DOMAIN last.arg.query = {"completed"}
    /\ Len(taskStorage) = 2
    /\ Len(categoryStorage) = 2
    /\ Len(last.result) = 1
    /\ "categoryName" \in DOMAIN last.result[1]
    /\ last.result[1]["id"] = taskStorage[2]["id"]
    /\ last.result[1]["categoryName"] # categoryStorage[1]["name"]

\* C10: every call of a public Model operation invokes its callback exactly once.
C10_CallbackExactlyOnce == last.op # "init" => last.calls = 1

\* C13: ids within one store are pairwise distinct in every reachable state:
\* a save without an id never reuses the id of a stored record.
C13_DistinctIds ==
    /\ \A i, j \in DOMAIN taskStorage :
           i # j => taskStorage[i]["id"] # taskStorage[j]["id"]
    /\ \A i, j \in DOMAIN categoryStorage :
           i # j => categoryStorage[i]["id"] # categoryStorage[j]["id"]

\* the fields of old that data does not name are the fields of new
FieldsKept(old, new, data) ==
    /\ DOMAIN new = (DOMAIN old) \cup (DOMAIN data)
    /\ \A k \in (DOMAIN old) \ (DOMAIN data) : new[k] = old[k]

\* C14: Store.save(data, id) with an id matching a record changes only that
\* record and only the fields present in data; with an id matching no record
\* it leaves the collection unmodified and adds no record.  (update without
\* categoryName is exactly taskStorage.save(data, callback, id).)
C14_SaveWithIdFrame ==
    [][(Step("update") /\ "categoryName" \notin DOMAIN last'.arg.data) =>
        LET at == Denoted(taskStorage, last'.arg.id)
        IN  IF at = 0
            THEN taskStorage' = taskStorage
            ELSE /\ Len(taskStorage') = Len(taskStorage)
                 /\ \A i \in DOMAIN taskStorage :
                        i # at => taskStorage'[i] = taskStorage[i]
                 /\ \/ taskStorage'[at] = taskStorage[at]
                    \/ FieldsKept(taskStorage[at], taskStorage'[at], last'.arg.data)
      ]_vars

\* C15: getCount reports completed = number of tasks whose completed flag is
\* true, active = number of the other tasks, total = active + completed =
\* number of tasks, and changes neither store.
C15_CountCorrect ==
    [][Step("getCount") =>
        LET done == {i \in DOMAIN taskStorage :
                        /\ "completed" \in DOMAIN taskStorage[i]
                        /\ taskStorage[i]["completed"] = TRUE}
            todos == last'.result
        IN  /\ todos.completed = Cardinality(done)
            /\ todos.active = Cardinality((DOMAIN taskStorage) \ done)
            /\ todos.total = todos.active + todos.completed
            /\ todos.total = Len(taskStorage)
            /\ taskStorage' = taskStorage
            /\ categoryStorage' = categoryStorage
      ]_vars

\* a count over one completed and one active task
C15_Witness ==
    /\ last.op = "getCount"
    /\ last.result.completed = 1
    /\ last.result.active = 1
    /\ last.result.total = 2

\* C16: removeAll leaves both stores empty from any state (an already empty
\* one included) and calls back once with an empty result.
C16_RemoveAllEmpties ==
    [][Step("removeAll") =>
        /\ taskStorage' = <<>>
        /\ categoryStorage' = <<>>
        /\ last'.result = <<>>
        /\ last'.calls = 1
        /\ ~last'.raised
      ]_vars

\* removeAll was the last operation and both stores are empty
C16_Witness ==
    /\ last.op = "removeAll"
    /\ taskStorage = <<>>
    /\ categoryStorage = <<>>

Without(items, k) == SubSeq(items, 1, k - 1) \o SubSeq(items, k + 1, Len(items))
IdsOf(items) == [i \in DOMAIN items |-> items[i]["id"]]
\* new is old with one record added after all the others
Appended(old, new) ==
    Len(new) = Len(old) + 1 /\ SubSeq(new, 1, Len(old)) = old
\* new is old, or old with one position taken out
Deleted(old, new) ==
    new = old \/ \E k \in DOMAIN old : new = Without(old, k)

\* C17: records stay in insertion order: a save without id appends after all
\* existing records, save with an id and remove keep the relative order of
\* the records that remain, and findAll and find({}) return that sequence.
C17_InsertionOrder ==
    [][clock' = clock =>
        /\ Step("create") =>
              /\ Appended(taskStorage, taskStorage')
              /\ categoryStorage' = categoryStorage
                    \/ Appended(categoryStorage, categoryStorage')
        /\ Step("update") =>
              /\ \/ Appended(taskStorage, taskStorage')
                 \/ IdsOf(taskStorage') = IdsOf(taskStorage)
              /\ \/ Deleted(categoryStorage, categoryStorage')
                 \/ Appended(categoryStorage, categoryStorage')
                 \/ \E k \in DOMAIN categoryStorage :
                       Appended(Without(categoryStorage, k), categoryStorage')
        /\ Step("remove") =>
              /\ Deleted(taskStorage, taskStorage')
              /\ Deleted(categoryStorage, categoryStorage')
        /\ (Step("readAll") \/ (Step("readQuery") /\ DOMAIN last'.arg.query = {})) =>
              /\ Len(last'.result) = Len(taskStorage)
              /\ \A i \in DOMAIN taskStorage :
                    WithoutName(last'.result[i]) = taskStorage[i]
      ]_vars

\* find({}) returned two tasks created at different instants, oldest first
C17_Witness ==
    /\ last.op = "readQuery"
    /\ DOMAIN last.arg.query = {}
    /\ Len(last.result) = 2
    /\ last.result[1]["id"] < last.result[2]["id"]

\* C18: in create and update the task is saved after the category resolution:
\* a categoryId written to a task is defined and is the id of a category
\* stored under the resolved name.
C18_SaveAfterResolution ==
    [][/\ Step("create") =>
            LET newTask == taskStorage'[Len(taskStorage')]
            IN  /\ "categoryId" \in DOMAIN newTask
                /\ \E i \in DOMAIN categoryStorage' :
                      /\ categoryStorage'[i]["name"] = trim(last'.arg.categoryName)
                      /\ categoryStorage'[i]["id"] = newTask["categoryId"]
       /\ (Step("update") /\ "categoryName" \in DOMAIN last'.arg.data) =>
            /\ Len(taskStorage') = Len(taskStorage)
            /\ \A t \in DOMAIN taskStorage :
                  categoryIdOf(taskStorage'[t]) # categoryIdOf(taskStorage[t]) =>
                      /\ "categoryId" \in DOMAIN taskStorage'[t]
                      /\ \E i \in DOMAIN categoryStorage' :
                            /\ categoryStorage'[i]["name"] =
                                   last'.arg.data["categoryName"]
                            /\ categoryStorage'[i]["id"] = taskStorage'[t]["categoryId"]
      ]_vars

\* an update moved a task to the category it had just resolved, whose id no
\* other category has
C18_Witness ==
    /\ last.op = "update"
    /\ ~last.raised
    /\ "categoryName" \in DOMAIN last.arg.data
    /\ \E t \in DOMAIN taskStorage, i \in DOMAIN categoryStorage :
          /\ categoryStorage[i]["name"] = last.arg.data["categoryName"]
          /\ categoryIdOf(taskStorage[t]) = categoryStorage[i]["id"]
          /\ \A j \in DOMAIN categoryStorage :
                j # i => categoryStorage[j]["id"] # categoryStorage[i]["id"]
          /\ Len(categoryStorage) = 2

\* C19: update with no categoryName in data leaves the category store
\* unchanged and changes in the task store only the fields of the identified
\* task that data names.
C19_PlainMerge ==
    [][(Step("update") /\ "categoryName" \notin DOMAIN last'.arg.data) =>
        LET at == Denoted(taskStorage, last'.arg.id)
        IN  /\ categoryStorage' = categoryStorage
            /\ Len(taskStorage') = Len(taskStorage)
            /\ \A i \in DOMAIN taskStorage :
                  \/ taskStorage'[i] = taskStorage[i]
                  \/ /\ i = at
                     /\ FieldsKept(taskStorage[i], taskStorage'[i], last'.arg.data)
      ]_vars

\* C20: the two revisions of remove (data.length < 2, data.length <= 1) leave
\* the same stores from every state and for every id, and both delete the
\* category exactly when no other task references it.
C20_RemoveRevisionsAgree ==
    [][Step("remove") =>
        LET id == last'.arg.id
            earlier == remove_earlier(taskStorage, categoryStorage, id)
            at == Denoted(taskStorage, id)
        IN  /\ taskStorage' = earlier.taskStorage
            /\ categoryStorage' = earlier.categoryStorage
            /\ last'.raised = earlier.raised
            /\ at # 0 =>
                 LET categoryId == categoryIdOf(taskStorage[at])
                     others == Members(taskStorage, categoryId) \ {at}
                 IN  IF others = {} /\ HasCategory(categoryStorage, categoryId)
                     THEN \E k \in DOMAIN categoryStorage :
                             /\ categoryStorage[k]["id"] = categoryId
                             /\ categoryStorage' = Without(categoryStorage, k)
                     ELSE categoryStorage' = categoryStorage
      ]_vars

\* remove took the only task of a category (data.length = 1, where both
\* tests fire), and the category with it
C20_Witness ==
    /\ last.op = "remove"
    /\ ~last.raised
    /\ taskStorage = <<>>
    /\ categoryStorage = <<>>

\* C21: when findById finds a task for the id given to update with a
\* categoryName, the save that follows modifies that same task: no other task
\* changes, and when the resolved category id differs from the task's
\* previous one the task's categoryId is rewritten to it.
C21_LookupAndSaveAgree ==
    [][(/\ Step("update")
        /\ "categoryName" \in DOMAIN last'.arg.data
        /\ Denoted(taskStorage, last'.arg.id) # 0) =>
        LET at == Denoted(taskStorage, last'.arg.id)
            newCategoryId == _getCategoryIdByName(categoryStorage,
                                 last'.arg.data["categoryName"], clock).categoryId
        IN  /\ Len(taskStorage') = Len(taskStorage)
            /\ \A i \in DOMAIN taskStorage : i # at => taskStorage'[i] = taskStorage[i]
            /\ newCategoryId # categoryIdOf(taskStorage[at]) =>
                   categoryIdOf(taskStorage'[at]) = newCategoryId
      ]_vars

\* the lookup of name finds a category and its id is the categoryId of the
\* task at position at
ResolvesToCurrent(tasks, categories, at, name) ==
    LET data == find(categories, [name |-> name])
    IN  data # <<>> /\ data[1]["id"] = categoryIdOf(tasks[at])

\* C22: update(id, {categoryName: N}) where N resolves to the current
\* category of the task the id denotes leaves the category store unchanged and
\* the task's categoryId unchanged, also when the task is the category's only
\* member.
C22_SameCategoryIsNeutral ==
    [][(/\ Step("update")
        /\ "categoryName" \in DOMAIN last'.arg.data
        /\ Denoted(taskStorage, last'.arg.id) # 0
        /\ ResolvesToCurrent(taskStorage, categoryStorage,
               Denoted(taskStorage, last'.arg.id), last'.arg.data["categoryName"])) =>
        LET at == Denoted(taskStorage, last'.arg.id)
        IN  /\ ~last'.raised
            /\ categoryStorage' = categoryStorage
            /\ Len(taskStorage') = Len(taskStorage)
            /\ categoryIdOf(taskStorage'[at]) = categoryIdOf(taskStorage[at])
      ]_vars

\* an update by categoryName has just run on the only task, the sole member
\* of the only category, which bears the name given and is still there
C22_Witness ==
    /\ last.op = "update"
    /\ ~last.raised
    /\ "categoryName" \in DOMAIN last.arg.data
    /\ Len(taskStorage) = 1
    /\ Len(categoryStorage) = 1
    /\ Denoted(taskStorage, last.arg.id) = 1
    /\ categoryStorage[1]["name"] = last.arg.data["categoryName"]
    /\ categoryStorage[1]["id"] = categoryIdOf(taskStorage[1])

\* C11: create and update calls running at the same time with the same new
\* category name store at most one category record with that name.
C11_OneCategoryPerName ==
    \A i, j \in DOMAIN categoryStorage :
        i # j => categoryStorage[i]["name"] # categoryStorage[j]["name"]

\* C12: a Model operation is one transaction: while a window is between the
\* first and the last Store call of its operation, no Store call of another
\* window's operation takes place.
C12_SingleTransaction ==
    [][\A p, q \in Tabs :
          (p # q /\ tabs[p].pc # "idle") => tabs'[q] = tabs[q]
      ]_vars

====
